---- MODULE Spec2Model ----
(***************************************************************************)
(* hapi-terminator: a request-admission gate run at hapi's onRequest       *)
(* extension point.  The repository holds five builds of the plugin:       *)
(*   "np"   src/index.ts          number / predicate limits, one generic   *)
(*                                validateRoute                            *)
(*   "np2"  src/unnamed/part_004  number / predicate limits, one handler   *)
(*                                per recognition status                   *)
(*   "bool" src/unnamed/part_002  number / boolean unregisteredLimit, zod  *)
(*                                schema, close on response finish         *)
(*   "vo"   src/unnamed/part_003  lines 1-111, as "bool" with a hand       *)
(*                                written validateOptions                  *)
(*   "oc"   src/unnamed/part_003  lines 113-228, numeric limits, per-route *)
(*                                override, override cache                 *)
(* One server runs one build.  Sizes and limits are small integers: every  *)
(* decision of the code is an order comparison, so 0..MaxLimit against     *)
(* 0..MaxSize plays the part of 500 / 1000 / 2000 bytes.                   *)
(***************************************************************************)
EXTENDS Integers, Sequences, FiniteSets, TLC

MaxLimit == 2   \* numeric limits range over 0..MaxLimit (and -1 before validation)
MaxSize == 3    \* declared sizes range over 0..MaxSize

(***************************************************************************)
(* JavaScript values.  Every value is a record of the same shape so that   *)
(* values of different JavaScript types can be compared.                   *)
(***************************************************************************)
Undef == [t |-> "undefined", v |-> 0]
Null == [t |-> "null", v |-> 0]
Missing == [t |-> "missing", v |-> 0]      \* the key is not in the object
NaN == [t |-> "NaN", v |-> 0]
Str == [t |-> "string", v |-> 0]           \* some non-numeric string
Num(n) == [t |-> "number", v |-> n]
Bool(b) == [t |-> "boolean", v |-> IF b THEN 1 ELSE 0]
Fn(i) == [t |-> "function", v |-> i]

\* x == null in JavaScript: true of null and undefined (a missing key reads undefined)
IsNullish(x) == x.t \in {"undefined", "null", "missing"}

\* reading a property: a missing key reads as undefined
Read(x) == IF x.t = "missing" THEN Undef ELSE x

\* a ?? b
Coalesce(a, b) == IF IsNullish(a) THEN b ELSE a

\* a > b on numbers; any comparison with NaN is false
Gt(a, b) == a.t = "number" /\ b.t = "number" /\ a.v > b.v

(***************************************************************************)
(* Header text and Number.parseInt(text, 10).  A header is absent or a     *)
(* sequence of one-character strings.                                      *)
(***************************************************************************)
Digits == <<"0", "1", "2", "3", "4", "5", "6", "7", "8", "9">>

IsDigit(c) == \E i \in 1..10 : Digits[i] = c

DigitVal(c) == (CHOOSE i \in 1..10 : Digits[i] = c) - 1

RECURSIVE Decimal(_)
\* the decimal text of n >= 0, as `${contentLength}` writes it
Decimal(n) == IF n < 10 THEN <<Digits[n + 1]>> ELSE Decimal(n \div 10) \o <<Digits[(n % 10) + 1]>>

RECURSIVE ParseDigits(_, _)
\* the value of the longest digit prefix of text, continuing from acc
ParseDigits(text, acc) ==
  IF text = <<>> \/ ~IsDigit(Head(text)) THEN acc
  ELSE ParseDigits(Tail(text), 10 * acc + DigitVal(Head(text)))

RECURSIVE SkipSpace(_)
SkipSpace(text) == IF text # <<>> /\ Head(text) = " " THEN SkipSpace(Tail(text)) ELSE text

\* Number.parseInt(text, 10): leading blanks, an optional sign, then the longest
\* digit prefix; NaN when there is no digit
parseInt(text) ==
  LET s == SkipSpace(text)
      signed == s # <<>> /\ Head(s) \in {"-", "+"}
      body == IF signed THEN Tail(s) ELSE s
      neg == signed /\ Head(s) = "-"
  IN IF body = <<>> \/ ~IsDigit(Head(body)) THEN NaN
     ELSE Num(IF neg THEN 0 - ParseDigits(body, 0) ELSE ParseDigits(body, 0))

NoHeader == [present |-> FALSE, text |-> <<>>]
Header(text) == [present |-> TRUE, text |-> text]

\* !rawContentLength : the header is absent or the empty string
IsFalsy(h) == ~h.present \/ h.text = <<>>

\* the Content-Length headers a client may send
ContentLengthHeaders ==
  {NoHeader, Header(<<>>), Header(<<"x">>), Header(<<"-", "1">>), Header(<<"2", "x">>)}
    \cup {Header(Decimal(n)) : n \in 0..MaxSize}

(***************************************************************************)
(* The routing table (hapi, the Destination Resolver) and the requests.    *)
(***************************************************************************)
PACKAGE_NAME == "hapi-terminator"

\* route settings: plugins is undefined or an object that may hold the
\* plugin's key with a limit, payload.maxBytes is undefined or a number
NoPlugins == [t |-> "undefined", hasKey |-> FALSE, limit |-> Missing]
Plugins(limit) == [t |-> "object", hasKey |-> TRUE, limit |-> limit]

RoutePaths == {"/test", "/unlimited", "/upload", "/bad"}

RouteSettings(path) ==
  CASE path = "/test" -> [plugins |-> NoPlugins, maxBytes |-> Undef]
    [] path = "/unlimited" -> [plugins |-> Plugins(Null), maxBytes |-> Undef]
    [] path = "/upload" -> [plugins |-> Plugins(Num(1)), maxBytes |-> Num(1)]
    [] path = "/bad" -> [plugins |-> Plugins(Num(-1)), maxBytes |-> Num(0)]

NoRoute == [found |-> FALSE, method |-> "", path |-> "", settings |-> [plugins |-> NoPlugins, maxBytes |-> Undef]]

\* request.server.match(method, path): the matched route or null
match(method, path) ==
  IF path \in RoutePaths
  THEN [found |-> TRUE, method |-> method, path |-> path, settings |-> RouteSettings(path)]
  ELSE NoRoute

Requests ==
  [method : {"post"},
   path : RoutePaths \cup {"/nonexistent"},
   contentLength : ContentLengthHeaders,
   transferEncoding : BOOLEAN]

NoRequest == [method |-> "", path |-> "", contentLength |-> NoHeader, transferEncoding |-> FALSE]

(***************************************************************************)
(* Plugin options and their validation at registration.                    *)
(***************************************************************************)
LIMIT_OPTION_NAMES == [REGISTERED |-> "registeredLimit", UNREGISTERED |-> "unregisteredLimit"]

\* an options value: undefined, null, or an object with the two limit slots
Options(kind, reg, unreg) == [t |-> kind, registeredLimit |-> reg, unregisteredLimit |-> unreg]

UndefOptions == Options("undefined", Missing, Missing)
NullOptions == Options("null", Missing, Missing)

\* options?.[name]
OptionOf(options, name) == IF options.t = "object" THEN Read(options[name]) ELSE Undef

\* z.nullish(z.number().check(z.minimum(0)))
LimitOptionShape(x) == IsNullish(x) \/ (x.t = "number" /\ x.v >= 0)

\* the "oc" build: z.nullish(z.object({registeredLimit, unregisteredLimit})).parse
TerminatorOptionsSchema_oc(raw) ==
  IF raw.t # "object" THEN [ok |-> TRUE, options |-> raw]
  ELSE IF LimitOptionShape(raw.registeredLimit) /\ LimitOptionShape(raw.unregisteredLimit)
       THEN [ok |-> TRUE, options |-> raw]
       ELSE [ok |-> FALSE, options |-> UndefOptions]

\* the "bool" build: the slot is nullish, a number >= 0 or a boolean; other keys are stripped
TerminatorOptionsSchema_bool(raw) ==
  IF raw.t # "object" THEN [ok |-> TRUE, options |-> raw]
  ELSE IF LimitOptionShape(raw.unregisteredLimit) \/ raw.unregisteredLimit.t = "boolean"
       THEN [ok |-> TRUE, options |-> Options("object", Missing, raw.unregisteredLimit)]
       ELSE [ok |-> FALSE, options |-> UndefOptions]

Max(a, b) == IF a >= b THEN a ELSE b

\* a slip: a number is kept as given, negative or not
validateOptions_NoClamp(options) ==
  IF options.t # "object" THEN Options("object", Missing, Null)
  ELSE IF options.unregisteredLimit.t = "missing" THEN Options("object", Missing, Null)
  ELSE IF options.unregisteredLimit.t \in {"number", "boolean"}
       THEN Options("object", Missing, options.unregisteredLimit)
  ELSE Options("object", Missing, Null)

\* the "vo" build
validateOptions(options) ==
  IF options.t # "object" THEN Options("object", Missing, Null)
  ELSE IF options.unregisteredLimit.t = "missing" THEN Options("object", Missing, Null)
  ELSE IF options.unregisteredLimit.t = "number"
       THEN Options("object", Missing, Num(Max(0, options.unregisteredLimit.v)))
  ELSE IF options.unregisteredLimit.t = "boolean"
       THEN Options("object", Missing, options.unregisteredLimit)
  ELSE Options("object", Missing, Null)

Variants == {"np", "np2", "bool", "vo", "oc"}

\* register(server, options): the options the request hook is built with, or a
\* failed registration when the schema's parse throws
register(v, raw) ==
  CASE v \in {"np", "np2"} -> [ok |-> TRUE, options |-> raw]
    [] v = "bool" -> TerminatorOptionsSchema_bool(raw)
    [] v = "vo" -> [ok |-> TRUE, options |-> validateOptions(raw)]
    [] v = "oc" -> TerminatorOptionsSchema_oc(raw)

\* the predicates of the README's example, in the model's units
ApplyFn(f, request, size) ==
  IF f.v = 1 THEN Gt(size, Num(1))
  ELSE IF request.path = "/upload" THEN Gt(size, Num(2)) ELSE Gt(size, Num(0))

Numbers == {Num(n) : n \in -1..MaxLimit}

\* the options a caller may hand to register, per build
RawOptions(v) ==
  CASE v \in {"np", "np2"} ->
         {Options("object", r, u) : r, u \in {Undef, Null, Fn(1), Fn(2)} \cup Numbers}
    [] v = "oc" ->
         {UndefOptions, NullOptions}
           \cup {Options("object", r, u) : r, u \in {Undef, Null} \cup Numbers}
    [] v = "bool" ->
         {UndefOptions, NullOptions}
           \cup {Options("object", Missing, u) :
                   u \in {Undef, Null, Bool(TRUE), Bool(FALSE), Str} \cup Numbers}
    [] v = "vo" ->
         {UndefOptions, NullOptions}
           \cup {Options("object", Missing, u) :
                   u \in {Missing, Undef, Null, Bool(TRUE), Bool(FALSE), Str} \cup Numbers}

(***************************************************************************)
(* What one run of the request hook does: its verdict, the error or        *)
(* response it hands to hapi, the option slot and the limit it evaluated,  *)
(* and the effects it performed, in order: "destroy" (socket.destroy()),   *)
(* "throw" (a Boom error raised to hapi), "takeover" (a response returned  *)
(* with takeover), "once" (a listener put on the response's finish).       *)
(***************************************************************************)
NoMessage == [t |-> "none", v |-> 0]

\* a slip: the socket is destroyed on the way to h.continue
Continue_Destroying(optionName, limit) ==
  [verdict |-> "continue", status |-> 0, message |-> NoMessage,
   optionName |-> optionName, limit |-> limit, effects |-> <<"destroy">>]

Continue(optionName, limit) ==
  [verdict |-> "continue", status |-> 0, message |-> NoMessage,
   optionName |-> optionName, limit |-> limit, effects |-> <<>>]

\* h.continue before any limit is looked at
ContinueEarly == Continue("none", Undef)

\* Boom.entityTooLarge(message) / the 413 response body
entityTooLarge(option) ==
  [status |-> 413,
   message |-> IF option.t = "number" THEN [t |-> "threshold", v |-> option.v]
               ELSE [t |-> "default", v |-> 0]]

\* Boom.notFound() / the 404 response body
notFound == [status |-> 404, message |-> [t |-> "Not Found", v |-> 0]]

Reject(error, optionName, limit, effects) ==
  [verdict |-> "reject", status |-> error.status, message |-> error.message,
   optionName |-> optionName, limit |-> limit, effects |-> effects]

(***************************************************************************)
(* Build "np" (src/index.ts): number / predicate limits.                   *)
(***************************************************************************)
\* a slip: the unrecognized callback handed to both calls
throwError_np_AlwaysNotFound(optionName, option) == notFound

\* the throwError callbacks onRequest hands to the handler
throwError_np(optionName, option) ==
  IF optionName = LIMIT_OPTION_NAMES.REGISTERED THEN entityTooLarge(option) ELSE notFound

\* a slip: no test for a negative limit
validateRoute_np_NoNegative(request, options, contentLength, optionName) ==
  LET option == OptionOf(options, optionName)
  IN IF IsNullish(option)
     THEN Continue(optionName, option)
     ELSE IF (option.t = "number" /\ Gt(contentLength, option))
               \/ (option.t = "function" /\ ApplyFn(option, request, contentLength))
          THEN Reject(throwError_np(optionName, option), optionName, option, <<"destroy", "throw">>)
          ELSE Continue(optionName, option)

validateRoute_np(request, options, contentLength, optionName) ==
  LET option == OptionOf(options, optionName)
  IN IF IsNullish(option) \/ (option.t = "number" /\ option.v < 0)
     THEN Continue(optionName, option)
     ELSE IF (option.t = "number" /\ Gt(contentLength, option))
               \/ (option.t = "function" /\ ApplyFn(option, request, contentLength))
          THEN Reject(throwError_np(optionName, option), optionName, option, <<"destroy", "throw">>)
          ELSE Continue(optionName, option)

onRequest_np(options, request) ==
  IF IsFalsy(request.contentLength) THEN ContinueEarly
  ELSE LET contentLength == parseInt(request.contentLength.text)
       IN IF contentLength.t = "NaN" THEN ContinueEarly
          ELSE IF match(request.method, request.path).found
               THEN validateRoute_np(request, options, contentLength, LIMIT_OPTION_NAMES.REGISTERED)
               ELSE validateRoute_np(request, options, contentLength, LIMIT_OPTION_NAMES.UNREGISTERED)

(***************************************************************************)
(* Build "np2" (part_004): one handler per recognition status.             *)
(***************************************************************************)
\* a slip: the error thrown before the socket is destroyed
handleUnregisteredRoute_ThrowFirst(request, options, contentLength) ==
  LET unregisteredLimit == Read(options.unregisteredLimit)
  IN IF IsNullish(unregisteredLimit) \/ (unregisteredLimit.t = "number" /\ unregisteredLimit.v < 0)
     THEN Continue("unregisteredLimit", unregisteredLimit)
     ELSE IF (unregisteredLimit.t = "number" /\ Gt(contentLength, unregisteredLimit))
               \/ (unregisteredLimit.t = "function" /\ ApplyFn(unregisteredLimit, request, contentLength))
          THEN Reject(notFound, "unregisteredLimit", unregisteredLimit, <<"throw">>)
          ELSE Continue("unregisteredLimit", unregisteredLimit)

handleUnregisteredRoute(request, options, contentLength) ==
  LET unregisteredLimit == Read(options.unregisteredLimit)
  IN IF IsNullish(unregisteredLimit) \/ (unregisteredLimit.t = "number" /\ unregisteredLimit.v < 0)
     THEN Continue("unregisteredLimit", unregisteredLimit)
     ELSE IF (unregisteredLimit.t = "number" /\ Gt(contentLength, unregisteredLimit))
               \/ (unregisteredLimit.t = "function" /\ ApplyFn(unregisteredLimit, request, contentLength))
          THEN Reject(notFound, "unregisteredLimit", unregisteredLimit, <<"destroy", "throw">>)
          ELSE Continue("unregisteredLimit", unregisteredLimit)

\* a slip: the predicate is never called
handleRegisteredRoute_NoPredicate(request, options, contentLength) ==
  LET registeredLimit == Read(options.registeredLimit)
  IN IF IsNullish(registeredLimit) \/ (registeredLimit.t = "number" /\ registeredLimit.v < 0)
     THEN Continue("registeredLimit", registeredLimit)
     ELSE IF registeredLimit.t = "number" /\ Gt(contentLength, registeredLimit)
          THEN Reject(entityTooLarge(registeredLimit), "registeredLimit", registeredLimit,
                      <<"destroy", "throw">>)
          ELSE Continue("registeredLimit", registeredLimit)

handleRegisteredRoute(request, options, contentLength) ==
  LET registeredLimit == Read(options.registeredLimit)
  IN IF IsNullish(registeredLimit) \/ (registeredLimit.t = "number" /\ registeredLimit.v < 0)
     THEN Continue("registeredLimit", registeredLimit)
     ELSE IF (registeredLimit.t = "number" /\ Gt(contentLength, registeredLimit))
               \/ (registeredLimit.t = "function" /\ ApplyFn(registeredLimit, request, contentLength))
          THEN Reject(entityTooLarge(registeredLimit), "registeredLimit", registeredLimit,
                      <<"destroy", "throw">>)
          ELSE Continue("registeredLimit", registeredLimit)

\* a slip: the two handlers called the wrong way round
onRequest_np2_Swapped(options, request) ==
  IF IsFalsy(request.contentLength) THEN ContinueEarly
  ELSE LET contentLength == parseInt(request.contentLength.text)
       IN IF contentLength.t = "NaN" THEN ContinueEarly
          ELSE IF match(request.method, request.path).found
               THEN handleUnregisteredRoute(request, options, contentLength)
               ELSE handleRegisteredRoute(request, options, contentLength)

onRequest_np2(options, request) ==
  IF IsFalsy(request.contentLength) THEN ContinueEarly
  ELSE LET contentLength == parseInt(request.contentLength.text)
       IN IF contentLength.t = "NaN" THEN ContinueEarly
          ELSE IF match(request.method, request.path).found
               THEN handleRegisteredRoute(request, options, contentLength)
               ELSE handleUnregisteredRoute(request, options, contentLength)

(***************************************************************************)
(* Build "bool" (part_002): payload.maxBytes on recognized routes, a       *)
(* number / boolean unregisteredLimit, close on the response's finish.     *)
(***************************************************************************)
\* a slip: the socket is destroyed in the hook instead of on finish
closeSocketsOnFinish_Now == <<"destroy">>

\* closeSocketsOnFinish(request): a once-listener on the response's finish event
closeSocketsOnFinish == <<"once">>

\* what the listener does when finish fires: socket.destroy(), or socket.end()
\* on a socket that has no destroy
finishListener(hasDestroy) == IF hasDestroy THEN "destroy" ELSE "end"

\* a slip: no branch for limit === true, so true is compared as the number 1
validateRoute_bool_TrueAsNumber(contentLength, optionName, limit, recognized) ==
  IF IsNullish(limit) THEN Continue(optionName, limit)
  ELSE IF limit = Bool(FALSE) THEN Continue(optionName, limit)
  ELSE IF limit = Num(0) \/ Gt(contentLength, IF limit = Bool(TRUE) THEN Num(1) ELSE limit)
       THEN Reject(IF recognized THEN entityTooLarge(limit) ELSE notFound,
                   optionName, limit, <<"takeover">> \o closeSocketsOnFinish)
  ELSE Continue(optionName, limit)

validateRoute_bool(contentLength, optionName, limit, recognized) ==
  IF IsNullish(limit) THEN Continue(optionName, limit)
  ELSE IF limit = Bool(FALSE) THEN Continue(optionName, limit)
  ELSE IF limit = Bool(TRUE)
       THEN Reject(IF recognized THEN entityTooLarge(Num(0)) ELSE notFound,
                   optionName, limit, <<"takeover">> \o closeSocketsOnFinish)
  ELSE IF limit = Num(0) \/ Gt(contentLength, limit)
       THEN Reject(IF recognized THEN entityTooLarge(limit) ELSE notFound,
                   optionName, limit, <<"takeover">> \o closeSocketsOnFinish)
  ELSE Continue(optionName, limit)

\* a slip: no early return for a request without body headers
validateHookHandler_bool_NoEarlyReturn(pluginOptions, request) ==
  LET hasTransferEncoding == request.transferEncoding
      contentLength == parseInt(IF IsFalsy(request.contentLength) THEN <<"0">>
                                ELSE request.contentLength.text)
      route == match(request.method, request.path)
  IN IF route.found
     THEN validateRoute_bool(contentLength, "maxBytes", route.settings.maxBytes, TRUE)
     ELSE validateRoute_bool(contentLength,
            IF hasTransferEncoding THEN "transferEncoding" ELSE "unregisteredLimit",
            Coalesce(IF hasTransferEncoding THEN Num(0) ELSE Null,
                     OptionOf(pluginOptions, "unregisteredLimit")),
            FALSE)

\* a slip: the configured limit taken before the 0 of Transfer-Encoding
validateHookHandler_bool_ConfiguredFirst(pluginOptions, request) ==
  LET hasTransferEncoding == request.transferEncoding
      willProcessPayload == hasTransferEncoding \/ ~IsFalsy(request.contentLength)
      contentLength == parseInt(IF IsFalsy(request.contentLength) THEN <<"0">>
                                ELSE request.contentLength.text)
      route == match(request.method, request.path)
  IN IF ~willProcessPayload THEN ContinueEarly
     ELSE IF route.found
          THEN validateRoute_bool(contentLength, "maxBytes", route.settings.maxBytes, TRUE)
          ELSE validateRoute_bool(contentLength,
                 IF hasTransferEncoding THEN "transferEncoding" ELSE "unregisteredLimit",
                 Coalesce(OptionOf(pluginOptions, "unregisteredLimit"),
                          IF hasTransferEncoding THEN Num(0) ELSE Null),
                 FALSE)

validateHookHandler_bool(pluginOptions, request) ==
  LET hasTransferEncoding == request.transferEncoding
      willProcessPayload == hasTransferEncoding \/ ~IsFalsy(request.contentLength)
      contentLength == parseInt(IF IsFalsy(request.contentLength) THEN <<"0">>
                                ELSE request.contentLength.text)
      route == match(request.method, request.path)
  IN IF ~willProcessPayload THEN ContinueEarly
     ELSE IF route.found
          THEN validateRoute_bool(contentLength, "maxBytes", route.settings.maxBytes, TRUE)
          ELSE validateRoute_bool(contentLength,
                 IF hasTransferEncoding THEN "transferEncoding" ELSE "unregisteredLimit",
                 Coalesce(IF hasTransferEncoding THEN Num(0) ELSE Null,
                          OptionOf(pluginOptions, "unregisteredLimit")),
                 FALSE)

(***************************************************************************)
(* Build "vo" (part_003, lines 1-111): the same hook over validateOptions. *)
(***************************************************************************)
validateRoute_vo(contentLength, optionName, limit, recognized) ==
  IF IsNullish(limit) THEN Continue(optionName, limit)
  ELSE IF limit = Bool(FALSE) THEN Continue(optionName, limit)
  ELSE IF limit = Bool(TRUE)
       THEN Reject(IF recognized THEN entityTooLarge(Num(0)) ELSE notFound,
                   optionName, limit, <<"takeover">> \o closeSocketsOnFinish)
  ELSE IF limit = Num(0) \/ Gt(contentLength, limit)
       THEN Reject(IF recognized THEN entityTooLarge(limit) ELSE notFound,
                   optionName, limit, <<"takeover">> \o closeSocketsOnFinish)
  ELSE Continue(optionName, limit)

validateHookHandler_vo(pluginOptions, request) ==
  LET hasTransferEncoding == request.transferEncoding
      willProcessPayload == hasTransferEncoding \/ ~IsFalsy(request.contentLength)
      contentLength == parseInt(IF IsFalsy(request.contentLength) THEN <<"0">>
                                ELSE request.contentLength.text)
      route == match(request.method, request.path)
  IN IF ~willProcessPayload THEN ContinueEarly
     ELSE IF route.found
          THEN validateRoute_vo(contentLength, "maxBytes", route.settings.maxBytes, TRUE)
          ELSE validateRoute_vo(contentLength,
                 IF hasTransferEncoding THEN "transferEncoding" ELSE "unregisteredLimit",
                 Coalesce(IF hasTransferEncoding THEN Num(0) ELSE Null,
                          OptionOf(pluginOptions, "unregisteredLimit")),
                 FALSE)

(***************************************************************************)
(* Build "oc" (part_003, lines 113-228): numeric limits, per-route         *)
(* override read from the route's plugin settings through a cache.         *)
(***************************************************************************)
\* parsed route options: undefined, or the object under the plugin's key
NoRouteOptions == [t |-> "undefined", limit |-> Missing]
RouteOptions(limit) == [t |-> "object", limit |-> limit]

\* a slip: the block under the plugin's key is taken as it is, without the schema
getRoutePluginSettings_Unchecked(matchedRoute) ==
  LET plugins == matchedRoute.settings.plugins
  IN IF plugins.t = "object" /\ plugins.hasKey
     THEN RouteOptions(plugins.limit)
     ELSE NoRouteOptions

\* TerminatorRouteOptionsSchema.safeParse(plugins).data: undefined when plugins
\* is nullish and when the parse fails
getRoutePluginSettings(matchedRoute) ==
  LET plugins == matchedRoute.settings.plugins
  IN IF plugins.t = "object" /\ plugins.hasKey /\ LimitOptionShape(plugins.limit)
     THEN RouteOptions(plugins.limit)
     ELSE NoRouteOptions

\* the cache is a Map: the keys set so far, each with the value set
CacheGet(cache, key) == IF key \in DOMAIN cache THEN cache[key] ELSE NoRouteOptions

\* a slip: the Map is rebuilt with the new entry alone
CacheSet_Replace(cache, key, value) == [k \in {key} |-> value]

CacheSet(cache, key, value) ==
  [k \in DOMAIN cache \cup {key} |-> IF k = key THEN value ELSE cache[k]]

EmptyCache == [k \in {} |-> NoRouteOptions]

\* a slip: the cache key leaves out the route's path
getRouteAndOptions_KeyByMethod(request, routeOptionsCache) ==
  LET matchedRoute == match(request.method, request.path)
      cacheKey == <<matchedRoute.method, "">>
      cachedResult == CacheGet(routeOptionsCache, cacheKey)
      options == getRoutePluginSettings(matchedRoute)
  IN IF ~matchedRoute.found
     THEN [route |-> NoRoute, options |-> NoRouteOptions, cache |-> routeOptionsCache]
     ELSE IF cachedResult.t # "undefined"
          THEN [route |-> matchedRoute, options |-> cachedResult, cache |-> routeOptionsCache]
          ELSE [route |-> matchedRoute, options |-> options,
                cache |-> CacheSet(routeOptionsCache, cacheKey, options)]

getRouteAndOptions(request, routeOptionsCache) ==
  LET matchedRoute == match(request.method, request.path)
      cacheKey == <<matchedRoute.method, matchedRoute.path>>
      cachedResult == CacheGet(routeOptionsCache, cacheKey)
      options == getRoutePluginSettings(matchedRoute)
  IN IF ~matchedRoute.found
     THEN [route |-> NoRoute, options |-> NoRouteOptions, cache |-> routeOptionsCache]
     ELSE IF cachedResult.t # "undefined"
          THEN [route |-> matchedRoute, options |-> cachedResult, cache |-> routeOptionsCache]
          ELSE [route |-> matchedRoute, options |-> options,
                cache |-> CacheSet(routeOptionsCache, cacheKey, options)]

\* the hook gets as far as the lookup and the Map holds options for the route
CachedBefore(request, routeOptionsCache) ==
  LET matchedRoute == match(request.method, request.path)
  IN /\ ~IsFalsy(request.contentLength)
     /\ parseInt(request.contentLength.text).t # "NaN"
     /\ matchedRoute.found
     /\ CacheGet(routeOptionsCache, <<matchedRoute.method, matchedRoute.path>>).t # "undefined"

\* a slip: the global option taken before the route's override
validateRoute_oc_GlobalFirst(options, contentLength, optionName, routeOptions) ==
  LET option == OptionOf(options, optionName)
      limit == Coalesce(option,
                        IF routeOptions.t = "object" THEN Read(routeOptions.limit) ELSE Undef)
  IN IF IsNullish(limit) THEN Continue(optionName, limit)
     ELSE IF Gt(contentLength, limit)
          THEN Reject(IF optionName = LIMIT_OPTION_NAMES.REGISTERED
                        THEN entityTooLarge(limit) ELSE notFound,
                      optionName, limit, <<"destroy", "throw">>)
          ELSE Continue(optionName, limit)

\* a slip: the error thrown before the socket is destroyed, so destroy never runs
validateRoute_oc_ThrowFirst(options, contentLength, optionName, routeOptions) ==
  LET option == OptionOf(options, optionName)
      limit == Coalesce(IF routeOptions.t = "object" THEN Read(routeOptions.limit) ELSE Undef,
                        option)
  IN IF IsNullish(limit) THEN Continue(optionName, limit)
     ELSE IF Gt(contentLength, limit)
          THEN Reject(IF optionName = LIMIT_OPTION_NAMES.REGISTERED
                        THEN entityTooLarge(limit) ELSE notFound,
                      optionName, limit, <<"throw">>)
          ELSE Continue(optionName, limit)

validateRoute_oc(options, contentLength, optionName, routeOptions) ==
  LET option == OptionOf(options, optionName)
      limit == Coalesce(IF routeOptions.t = "object" THEN Read(routeOptions.limit) ELSE Undef,
                        option)
      source == IF routeOptions.t = "object" /\ ~IsNullish(routeOptions.limit)
                THEN "override" ELSE optionName
  IN IF IsNullish(limit) THEN Continue(source, limit)
     ELSE IF Gt(contentLength, limit)
          THEN Reject(IF optionName = LIMIT_OPTION_NAMES.REGISTERED
                        THEN entityTooLarge(limit) ELSE notFound,
                      source, limit, <<"destroy", "throw">>)
          ELSE Continue(source, limit)

\* the hook's outcome and the cache it leaves
validateHookHandler_oc(pluginOptions, routeOptionsCache, request) ==
  IF IsFalsy(request.contentLength)
  THEN [outcome |-> ContinueEarly, cache |-> routeOptionsCache]
  ELSE LET contentLength == parseInt(request.contentLength.text)
           found == getRouteAndOptions(request, routeOptionsCache)
       IN IF contentLength.t = "NaN"
          THEN [outcome |-> ContinueEarly, cache |-> routeOptionsCache]
          ELSE IF found.route.found
               THEN [outcome |-> validateRoute_oc(pluginOptions, contentLength,
                                                  LIMIT_OPTION_NAMES.REGISTERED, found.options),
                     cache |-> found.cache]
               ELSE [outcome |-> validateRoute_oc(pluginOptions, contentLength,
                                                  LIMIT_OPTION_NAMES.UNREGISTERED, NoRouteOptions),
                     cache |-> found.cache]

(***************************************************************************)
(* The server: one build registered once, then one request at a time       *)
(* through the hook, hapi's response and the response's finish event.      *)
(***************************************************************************)
VARIABLES
  variant,            \* the build the server runs
  phase,              \* "new", "registered", or "failed" (register threw)
  rawOptions,         \* the options register was called with
  pluginOptions,      \* the options the hook was built with
  routeOptionsCache,  \* the "oc" build's Map
  cacheHit,           \* whether the hook took the route's options from the Map
  request,            \* the request in hand
  stage,              \* "idle", "passed", "handled", "responded", "done"
  outcome,            \* what the hook did with the request
  socketShape,        \* the socket the request came with, see SocketShapes
  socket,             \* "none", "open", "destroyed", "ended", "absent"
  finishListeners,    \* listeners waiting on the response's finish event
  events,             \* what happened to the request, in order
  clientBytes         \* whether response bytes reached the client

vars ==
  <<variant, phase, rawOptions, pluginOptions, routeOptionsCache, cacheHit, request, stage,
    outcome, socketShape, socket, finishListeners, events, clientBytes>>

NoOutcome ==
  [verdict |-> "none", status |-> 0, message |-> NoMessage, optionName |-> "none",
   limit |-> Undef, effects |-> <<>>]

Count(seq, e) == Cardinality({i \in DOMAIN seq : seq[i] = e})

Has(seq, e) == \E i \in DOMAIN seq : seq[i] = e

\* the position of the first e in seq, 0 when there is none
First(seq, e) == IF Has(seq, e) THEN CHOOSE i \in DOMAIN seq : seq[i] = e /\ \A j \in 1..(i - 1) : seq[j] # e ELSE 0

(***************************************************************************)
(* request.raw.req.socket.  Node hands the hook a net.Socket ("net"),      *)
(* which the peer may have closed already ("closed").  Each build is also  *)
(* offered the socket its own code provides for: the builds that call      *)
(* socket?.destroy() a request without socket ("absent"), the builds whose *)
(* finish listener tests socket.destroy a socket that has only end()       *)
(* ("endOnly").                                                            *)
(***************************************************************************)
SocketShapes(v) ==
  IF v \in {"bool", "vo"} THEN {"net", "endOnly"} ELSE {"net", "closed", "absent"}

\* the state of the socket when the request arrives
ArrivalState(shape) ==
  CASE shape = "absent" -> "absent"
    [] shape = "closed" -> "destroyed"
    [] OTHER -> "open"

\* a slip: socket.destroy() without the guard
optionalDestroy_Unguarded(shape) ==
  IF shape \in {"absent", "endOnly"} THEN <<"TypeError">> ELSE <<"destroy">>

\* socket?.destroy(): skipped without socket, a TypeError on a socket that has
\* no destroy, harmless on a socket already destroyed
optionalDestroy(shape) ==
  CASE shape = "absent" -> <<>>
    [] shape = "endOnly" -> <<"TypeError">>
    [] OTHER -> <<"destroy">>

\* the finish listener on the socket: a TypeError without socket
listenerClose(shape) ==
  IF shape = "absent" THEN "TypeError" ELSE finishListener(shape # "endOnly")

RECURSIVE Perform(_, _)
\* what the hook's effects come to on the request's socket; a TypeError ends the hook
Perform(effects, shape) ==
  IF effects = <<>> THEN <<>>
  ELSE IF Head(effects) = "destroy"
       THEN IF optionalDestroy(shape) = <<"TypeError">> THEN <<"TypeError">>
            ELSE optionalDestroy(shape) \o Perform(Tail(effects), shape)
       ELSE <<Head(effects)>> \o Perform(Tail(effects), shape)

\* the socket after the events
SocketAfter(before, evs) ==
  IF before = "absent" THEN "absent"
  ELSE IF Has(evs, "destroy") THEN "destroyed"
  ELSE IF Has(evs, "end") /\ before = "open" THEN "ended"
  ELSE before

RECURSIVE Repeat(_, _)
Repeat(e, n) == IF n = 0 THEN <<>> ELSE <<e>> \o Repeat(e, n - 1)

\* the hook the registered build installs with server.ext('onRequest', ...)
Hook(v, options, cache, req) ==
  CASE v = "np" -> [outcome |-> onRequest_np(options, req), cache |-> cache]
    [] v = "np2" -> [outcome |-> onRequest_np2(options, req), cache |-> cache]
    [] v = "bool" -> [outcome |-> validateHookHandler_bool(options, req), cache |-> cache]
    [] v = "vo" -> [outcome |-> validateHookHandler_vo(options, req), cache |-> cache]
    [] v = "oc" -> validateHookHandler_oc(options, cache, req)

Init ==
  /\ variant \in Variants
  /\ phase = "new"
  /\ rawOptions = UndefOptions
  /\ pluginOptions = UndefOptions
  /\ routeOptionsCache = EmptyCache
  /\ cacheHit = FALSE
  /\ request = NoRequest
  /\ stage = "idle"
  /\ outcome = NoOutcome
  /\ socketShape = "none"
  /\ socket = "none"
  /\ finishListeners = 0
  /\ events = <<>>
  /\ clientBytes = FALSE

\* server.register({plugin, options})
Register(raw) ==
  /\ phase = "new"
  /\ LET r == register(variant, raw)
     IN /\ phase' = IF r.ok THEN "registered" ELSE "failed"
        /\ pluginOptions' = r.options
  /\ rawOptions' = raw
  /\ UNCHANGED <<variant, routeOptionsCache, cacheHit, request, stage, outcome, socketShape,
                 socket, finishListeners, events, clientBytes>>

\* hapi runs the onRequest hook on a request and its socket
OnRequest(req, shape) ==
  /\ phase = "registered"
  /\ stage = "idle"
  /\ LET r == Hook(variant, pluginOptions, routeOptionsCache, req)
         done == Perform(r.outcome.effects, shape)
     IN /\ outcome' = r.outcome
        /\ routeOptionsCache' = r.cache
        /\ cacheHit' = (variant = "oc" /\ CachedBefore(req, routeOptionsCache))
        /\ events' = done
        /\ socket' = SocketAfter(ArrivalState(shape), done)
        /\ finishListeners' = Count(done, "once")
        /\ stage' = IF r.outcome.verdict = "continue" THEN "passed" ELSE "handled"
  /\ request' = req
  /\ socketShape' = shape
  /\ clientBytes' = FALSE
  /\ UNCHANGED <<variant, phase, rawOptions, pluginOptions>>

\* hapi writes the response for the error thrown or the response taken over;
\* nothing written to a destroyed socket reaches the client
HostRespond ==
  /\ stage = "handled"
  /\ events' = Append(events, "respond")
  /\ clientBytes' = (socket = "open")
  /\ stage' = IF socket = "open" THEN "responded" ELSE "done"
  /\ UNCHANGED <<variant, phase, rawOptions, pluginOptions, routeOptionsCache, cacheHit,
                 request, outcome, socketShape, socket, finishListeners>>

\* the peer closes the connection while the request is in hand
PeerClose ==
  /\ stage \in {"handled", "responded"}
  /\ socket = "open"
  /\ socket' = "destroyed"
  /\ events' = Append(events, "peerClose")
  /\ UNCHANGED <<variant, phase, rawOptions, pluginOptions, routeOptionsCache, cacheHit,
                 request, stage, outcome, socketShape, finishListeners, clientBytes>>

\* the response's finish event: every once-listener runs and is removed
ResFinish ==
  /\ stage = "responded"
  /\ LET ran == Repeat(listenerClose(socketShape), finishListeners)
     IN /\ events' = events \o <<"finish">> \o ran
        /\ socket' = SocketAfter(socket, ran)
  /\ finishListeners' = 0
  /\ stage' = "done"
  /\ UNCHANGED <<variant, phase, rawOptions, pluginOptions, routeOptionsCache, cacheHit,
                 request, outcome, socketShape, clientBytes>>

\* the request is over: hapi drops the request object, the hook's closures and
\* the response with its listeners; the next request comes on a socket of its own
RequestEnd ==
  /\ stage \in {"passed", "done"}
  /\ request' = NoRequest
  /\ cacheHit' = FALSE
  /\ stage' = "idle"
  /\ outcome' = NoOutcome
  /\ socketShape' = "none"
  /\ socket' = "none"
  /\ finishListeners' = 0
  /\ events' = <<>>
  /\ clientBytes' = FALSE
  /\ UNCHANGED <<variant, phase, rawOptions, pluginOptions, routeOptionsCache>>

Next ==
  \/ \E raw \in RawOptions(variant) : Register(raw)
  \/ \E req \in Requests, shape \in SocketShapes(variant) : OnRequest(req, shape)
  \/ HostRespond
  \/ PeerClose
  \/ ResFinish
  \/ RequestEnd

Spec == Init /\ [][Next]_vars

(***************************************************************************)
(* Vocabulary of the properties.                                           *)
(***************************************************************************)
\* a request has been through the hook
Handled == stage \in {"passed", "handled", "responded", "done"}

Admitted == outcome.verdict = "continue"

Rejected == outcome.verdict = "reject"

\* the destination is in the routing table
Recognized == request.path \in RoutePaths

\* the request declares its size: a Content-Length that parses to a number
HasDeclaredSize == ~IsFalsy(request.contentLength) /\ parseInt(request.contentLength.text).t = "number"

DeclaredSize == parseInt(request.contentLength.text).v

\* the request carries a non-empty Content-Length or a Transfer-Encoding header
DeclaresBody == request.transferEncoding \/ ~IsFalsy(request.contentLength)

GracefulBuild == variant \in {"bool", "vo"}

ImmediateBuild == variant \in {"np", "np2", "oc"}

\* the global default configured for the request's recognition status
GlobalDefault ==
  IF Recognized THEN OptionOf(pluginOptions, "registeredLimit")
  ELSE OptionOf(pluginOptions, "unregisteredLimit")

\* the override the route's settings carry for the plugin ("oc" build)
RouteOverride == RouteSettings(request.path).plugins

(***************************************************************************)
(* C1.  Original statement: in every build, a request with a parsable      *)
(* Content-Length s >= 0 whose effective limit is a number L >= 0 is       *)
(* admitted if and only if s <= L (s = L = 0 included).  The "bool" and    *)
(* "vo" builds reject every request evaluated against the limit 0.         *)
(***************************************************************************)
C1_AdmittedIffWithinLimit ==
  (Handled /\ HasDeclaredSize /\ DeclaredSize >= 0
     /\ outcome.limit.t = "number" /\ outcome.limit.v >= 0)
    => (Admitted <=> DeclaredSize <= outcome.limit.v)

(***************************************************************************)
(* C2.  Original statement: in the "oc" build a recognized route whose     *)
(* plugin settings carry limit = null admits every declared size, whatever *)
(* the global registeredLimit is.  The code reads null ?? registeredLimit, *)
(* so the global limit applies.                                            *)
(***************************************************************************)
C2_NullOverrideDisablesLimit ==
  (Handled /\ variant = "oc" /\ Recognized /\ RouteOverride = Plugins(Null))
    => Admitted

(***************************************************************************)
(* C3.  In the "oc" build, on a recognized route: a numeric override       *)
(* (>= 0, as the route schema demands) alone decides, the request being    *)
(* rejected exactly when its declared size exceeds the override, whatever  *)
(* registeredLimit is; with no override in the route's settings the global *)
(* registeredLimit decides.                                                *)
(***************************************************************************)
C3_OverridePrecedence ==
  (Handled /\ variant = "oc" /\ Recognized /\ HasDeclaredSize)
    => /\ (RouteOverride.t = "object" /\ RouteOverride.limit.t = "number"
             /\ RouteOverride.limit.v >= 0)
            => (Rejected <=> DeclaredSize > RouteOverride.limit.v)
       /\ RouteOverride.t = "undefined"
            => (Rejected <=> (GlobalDefault.t = "number" /\ DeclaredSize > GlobalDefault.v))

\* override 1 above the global limit 0: size 1 is admitted
C3_Witness ==
  /\ stage = "passed" /\ variant = "oc" /\ request.path = "/upload"
  /\ RouteOverride = Plugins(Num(1))
  /\ GlobalDefault = Num(0)
  /\ HasDeclaredSize /\ DeclaredSize = 1

(***************************************************************************)
(* C4.  Original statement: a request whose destination has no limit at    *)
(* any level (no override, no route cap, no global default for its         *)
(* recognition status) is admitted, whatever it declares and however.      *)
(* The "bool" and "vo" builds evaluate an unrecognized request that has a  *)
(* Transfer-Encoding header against 0.                                     *)
(***************************************************************************)
NoLimitConfigured ==
  CASE variant \in {"np", "np2"} -> IsNullish(GlobalDefault)
    [] variant = "oc" ->
         IsNullish(GlobalDefault) /\ (Recognized => RouteOverride.t = "undefined")
    [] variant \in {"bool", "vo"} ->
         IF Recognized THEN IsNullish(RouteSettings(request.path).maxBytes)
         ELSE IsNullish(GlobalDefault)

C4_NoLimitAlwaysAdmitted == (Handled /\ NoLimitConfigured) => Admitted

C6_StatusByRecognition ==
  Handled => /\ Rejected => outcome.status = (IF Recognized THEN 413 ELSE 404)
             /\ Admitted => outcome.status = 0
             /\ Rejected \/ Admitted

C6_Witness ==
  /\ stage = "done" /\ Rejected /\ Recognized /\ outcome.status = 413

(***************************************************************************)
(* C7.  The two global defaults are applied independently.  In the builds  *)
(* that have both slots, a recognized request on a route without override  *)
(* is rejected exactly when registeredLimit says so and an unrecognized    *)
(* one exactly when unregisteredLimit says so; in every build a recognized *)
(* request is never evaluated against unregisteredLimit nor an             *)
(* unrecognized one against registeredLimit, an override or a route cap.   *)
(***************************************************************************)
\* what a limit in a slot says of the declared size
Exceeds(limit) ==
  \/ limit.t = "number" /\ limit.v >= 0 /\ DeclaredSize > limit.v
  \/ limit.t = "function" /\ ApplyFn(limit, request, Num(DeclaredSize))

C7_DefaultsIndependent ==
  Handled =>
    /\ Recognized => outcome.optionName \notin {"unregisteredLimit", "transferEncoding"}
    /\ ~Recognized => outcome.optionName \notin {"registeredLimit", "override", "maxBytes"}
    /\ (ImmediateBuild /\ HasDeclaredSize) =>
         /\ (Recognized /\ (variant = "oc" => RouteOverride.t = "undefined"))
              => (Rejected <=> Exceeds(OptionOf(pluginOptions, "registeredLimit")))
         /\ ~Recognized
              => /\ Rejected <=> Exceeds(OptionOf(pluginOptions, "unregisteredLimit"))
                 /\ Rejected => (outcome.status = 404 /\ socket \in {"destroyed", "absent"})

\* registeredLimit 2, unregisteredLimit 1, declared size 2 on an unrecognized path
C7_Witness ==
  /\ stage = "done" /\ variant = "oc" /\ ~Recognized
  /\ OptionOf(pluginOptions, "registeredLimit") = Num(2)
  /\ OptionOf(pluginOptions, "unregisteredLimit") = Num(1)
  /\ HasDeclaredSize /\ DeclaredSize = 2
  /\ Rejected /\ outcome.status = 404 /\ socket = "destroyed" /\ ~clientBytes

C9_NeverCheckAdmitsAll ==
  (Handled /\ GracefulBuild /\ ~Recognized /\ GlobalDefault = Bool(FALSE))
    => (Admitted /\ events = <<>> /\ socket = ArrivalState(socketShape))

Closings == {i \in 1..Len(events) : events[i] \in {"destroy", "end"}}

(***************************************************************************)
(* C11.  In the builds that terminate gracefully ("bool", "vo") a rejected *)
(* request has its rejection response produced first (takeover) and a      *)
(* once-listener put on the response's finish event; the gate closes the   *)
(* socket at no point before the response was written and has finished,    *)
(* the socket stays open until then unless the peer closes it, and once    *)
(* finish has occurred the listener is gone and the socket is closed.      *)
(***************************************************************************)
C11_GracefulCloseAfterFinish ==
  (Handled /\ GracefulBuild /\ Rejected)
    => /\ Len(events) >= 2 /\ SubSeq(events, 1, 2) = <<"takeover", "once">>
       /\ \A i \in Closings :
            /\ Has(events, "respond") /\ Has(events, "finish")
            /\ First(events, "respond") < First(events, "finish")
            /\ First(events, "finish") < i
       /\ (~Has(events, "finish") /\ ~Has(events, "peerClose"))
            => (socket = "open" /\ finishListeners = 1)
       /\ Has(events, "finish")
            => (Closings # {} /\ socket \in {"destroyed", "ended"} /\ finishListeners = 0)

\* the response reached the client, finished, and only then the socket was destroyed
C11_Witness ==
  /\ variant = "bool" /\ Rejected /\ stage = "done" /\ clientBytes
  /\ events = <<"takeover", "once", "respond", "finish", "destroy">>
  /\ socket = "destroyed"

(***************************************************************************)
(* C12.  The gate terminates the connection exactly for a rejection.  An   *)
(* admitted request has no effect of the gate at all: the socket is as it  *)
(* arrived, no listener is registered, no response comes from the gate.    *)
(* A rejected request has its socket destroyed by the hook in the builds   *)
(* that terminate at once; in the graceful builds the hook registers the   *)
(* closing listener with its response, and when the response is over the   *)
(* socket is no longer open.                                               *)
(***************************************************************************)
C12_TerminationIffRejection ==
  Handled =>
    /\ Admitted => /\ stage = "passed"
                   /\ events = <<>>
                   /\ socket = ArrivalState(socketShape)
                   /\ finishListeners = 0
                   /\ outcome.status = 0 /\ ~clientBytes
    /\ (Rejected /\ ImmediateBuild /\ socket # "absent")
         => (socket = "destroyed" /\ Has(events, "throw") /\ outcome.status \in {413, 404})
    /\ (Rejected /\ GracefulBuild)
         => /\ Has(events, "takeover") /\ Has(events, "once")
            /\ outcome.status \in {413, 404}
            /\ finishListeners = 1 \/ Closings # {}
            /\ stage = "done" => socket \in {"destroyed", "ended"}

\* a rejected request whose socket has only end(): ended when the response finished
C12_Witness ==
  /\ variant = "vo" /\ Rejected /\ stage = "done" /\ socketShape = "endOnly"
  /\ events = <<"takeover", "once", "respond", "finish", "end">>
  /\ socket = "ended"

\* the request has a Content-Length header that does not parse to a number
UnparsableContentLength ==
  ~IsFalsy(request.contentLength) /\ parseInt(request.contentLength.text) = NaN

(***************************************************************************)
(* C13.  Original statement: in every build a request whose Content-Length *)
(* is present but does not parse to an integer is admitted and nothing is  *)
(* done to it, whatever limit is in force and on recognized and            *)
(* unrecognized paths alike.  The "bool" and "vo" builds do not test for   *)
(* NaN and go on to evaluate the limit.                                    *)
(***************************************************************************)
C13_UnparsablePassesThrough ==
  (Handled /\ UnparsableContentLength)
    => (Admitted /\ events = <<>> /\ socket = ArrivalState(socketShape))

\* the two slots of an options value
Slots(options) == {OptionOf(options, name) : name \in {"registeredLimit", "unregisteredLimit"}}

Negative(x) == x.t = "number" /\ x.v < 0

\* the builds whose register validates the options
ValidatingBuild == variant \in {"oc", "bool", "vo"}

C15_DisabledSlotAdmitsAll ==
  (Handled /\ variant \in {"np", "np2"} /\ (IsNullish(GlobalDefault) \/ Negative(GlobalDefault)))
    => (Admitted /\ stage = "passed" /\ events = <<>> /\ socket = ArrivalState(socketShape))

\* the largest declared size against registeredLimit = -1, the other slot limiting
C15_Witness ==
  /\ variant = "np" /\ Handled /\ Recognized
  /\ GlobalDefault = Num(-1)
  /\ OptionOf(pluginOptions, "unregisteredLimit") = Num(0)
  /\ HasDeclaredSize /\ DeclaredSize = MaxSize
  /\ Admitted /\ socket = "open"

\* what the hook did, whatever limit it read
Does(o) == [verdict |-> o.verdict, status |-> o.status, message |-> o.message,
            effects |-> o.effects]

\* the slot of the request's category
CategorySlot == IF Recognized THEN "registeredLimit" ELSE "unregisteredLimit"

\* register was given no limit for the request's category: no options, an empty
\* object, or the slot undefined or null
SlotAbsent ==
  \/ rawOptions.t \in {"undefined", "null"}
  \/ rawOptions.t = "object" /\ rawOptions[CategorySlot].t \in {"missing", "undefined", "null"}

\* the options as given, with the slot of the request's category set to null
WithSlotNull ==
  IF rawOptions.t = "object"
  THEN [rawOptions EXCEPT ![CategorySlot] = Null]
  ELSE [Options("object", Missing, Missing) EXCEPT ![CategorySlot] = Null]

(***************************************************************************)
(* C16.  Original statement: in every build, when register was given no    *)
(* limit for the request's category (options undefined, null, an empty     *)
(* object, or the slot null or undefined) the hook does to every request   *)
(* what it does with the slot explicitly null, and it rejects a request    *)
(* only for a cap of the request's route, never for a limit of 0 taken in  *)
(* place of the absent one.  The "bool" and "vo" builds evaluate a request *)
(* with a Transfer-Encoding header against 0.                              *)
(***************************************************************************)
C16_AbsentConfigIsNoLimit ==
  (Handled /\ SlotAbsent)
    => /\ Does(outcome) = Does(Hook(variant, register(variant, WithSlotNull).options,
                                     routeOptionsCache, request).outcome)
       /\ Rejected => (Recognized /\ outcome.optionName \in {"override", "maxBytes"})

\* the predicate in the slot of the request's category, called with the request
\* and its declared size
PredicateSaysReject == ApplyFn(GlobalDefault, request, Num(DeclaredSize))

(***************************************************************************)
(* C17.  In the number / predicate builds ("np", "np2"), with a predicate  *)
(* in the slot of the request's category a request with a parsable         *)
(* Content-Length s is rejected if and only if the predicate returns true  *)
(* for the request and s.  The rejection is 413 on a recognized path and   *)
(* 404 on an unrecognized one, and the 413 carries the default message     *)
(* without a threshold; with a numeric limit the 413 message names the     *)
(* limit.                                                                  *)
(***************************************************************************)
C17_PredicateDecides ==
  (Handled /\ variant \in {"np", "np2"} /\ HasDeclaredSize)
    => /\ GlobalDefault.t = "function"
            => /\ Rejected <=> PredicateSaysReject
               /\ Rejected => /\ outcome.status = IF Recognized THEN 413 ELSE 404
                              /\ Recognized => outcome.message = [t |-> "default", v |-> 0]
       /\ (GlobalDefault.t = "number" /\ Rejected /\ Recognized)
            => (outcome.status = 413
                  /\ outcome.message = [t |-> "threshold", v |-> GlobalDefault.v])

\* the README's per-path predicate rejects size 3 on /upload with a 413 that names no limit
C17_Witness ==
  /\ variant = "np2" /\ Handled /\ request.path = "/upload"
  /\ GlobalDefault = Fn(2) /\ HasDeclaredSize /\ DeclaredSize = 3
  /\ Rejected /\ outcome.status = 413 /\ outcome.message.t = "default"

(***************************************************************************)
(* C18.  In the "oc" build the route options the hook resolves for a       *)
(* request do not depend on what the cache holds: whatever requests came   *)
(* before, every request gets from the cache in hand the options a cold    *)
(* cache gives, and the hook's outcome is the one it computes with a cold  *)
(* cache; so for routes with an override, with none and with an invalid    *)
(* one.                                                                    *)
(***************************************************************************)
C18_CacheColdWarmSame ==
  (phase = "registered" /\ variant = "oc")
    => /\ \A req \in Requests :
            getRouteAndOptions(req, routeOptionsCache).options
              = getRouteAndOptions(req, EmptyCache).options
       /\ Handled => outcome = Hook("oc", pluginOptions, EmptyCache, request).outcome

\* a request served from the warm cache while other routes are cached too
C18_Witness ==
  /\ variant = "oc" /\ Handled /\ cacheHit
  /\ request.path = "/upload" /\ HasDeclaredSize /\ DeclaredSize = 2
  /\ GlobalDefault = Num(2)
  /\ Rejected /\ outcome.limit = Num(1) /\ outcome.optionName = "override"
  /\ <<"post", "/unlimited">> \in DOMAIN routeOptionsCache
  /\ <<"post", "/bad">> \in DOMAIN routeOptionsCache

\* the request's route has a block under the plugin's key that fails the route schema
OverrideInvalid ==
  /\ Recognized
  /\ RouteOverride.t = "object" /\ RouteOverride.hasKey
  /\ ~LimitOptionShape(RouteOverride.limit)

(***************************************************************************)
(* C19.  In the "oc" build a request to a recognized route whose override  *)
(* block fails validation is evaluated against the global registeredLimit, *)
(* as a request to a route without override is: it is admitted only if no  *)
(* registeredLimit is configured or its declared size is within it, and    *)
(* rejected with 413 otherwise.  The failed block alone never makes the    *)
(* route unlimited.                                                        *)
(***************************************************************************)
C19_InvalidOverrideFallsToGlobal ==
  (Handled /\ variant = "oc" /\ OverrideInvalid /\ HasDeclaredSize)
    => /\ outcome.optionName = "registeredLimit"
       /\ outcome.limit = GlobalDefault
       /\ Admitted <=> (IsNullish(GlobalDefault) \/ DeclaredSize <= GlobalDefault.v)
       /\ Rejected => outcome.status = 413
       /\ Does(outcome) = Does(Hook("oc", pluginOptions, routeOptionsCache,
                                    [request EXCEPT !.path = "/test"]).outcome)

\* the route with the override -1: size 2 against registeredLimit 1 is rejected
C19_Witness ==
  /\ variant = "oc" /\ Handled /\ request.path = "/bad" /\ OverrideInvalid
  /\ GlobalDefault = Num(1) /\ HasDeclaredSize /\ DeclaredSize = 2
  /\ Rejected /\ outcome.status = 413 /\ outcome.limit = Num(1)

RouteKeys == {<<"post", path>> : path \in RoutePaths}

\* what the cache holds is right: keys of routes only, each with the route's
\* validated plugin settings
CacheSound ==
  /\ DOMAIN routeOptionsCache \subseteq RouteKeys
  /\ Cardinality(DOMAIN routeOptionsCache) <= Cardinality(RoutePaths)
  /\ \A key \in DOMAIN routeOptionsCache :
       routeOptionsCache[key] = getRoutePluginSettings(match(key[1], key[2]))
  /\ variant # "oc" => routeOptionsCache = EmptyCache
  /\ (Handled /\ variant = "oc" /\ ~Recognized)
       => /\ outcome.optionName # "override"
          /\ HasDeclaredSize => (outcome.optionName = "unregisteredLimit"
                                   /\ outcome.limit = GlobalDefault)

\* how the cache changes in a step: nothing is removed or overwritten, and only
\* the recognized request of the step adds its own route's key
CacheGrows ==
  /\ \A key \in DOMAIN routeOptionsCache :
       key \in DOMAIN routeOptionsCache' /\ routeOptionsCache'[key] = routeOptionsCache[key]
  /\ \A key \in DOMAIN routeOptionsCache' \ DOMAIN routeOptionsCache :
       /\ stage = "idle" /\ stage' # "idle"
       /\ request'.path \in RoutePaths
       /\ key = <<request'.method, request'.path>>

(***************************************************************************)
(* C21.  The override cache of the "oc" build, after any sequence of       *)
(* requests: it has keys only for routes of the routing table, so never    *)
(* more entries than routes; the value under a key is that route's         *)
(* validated plugin settings; no step removes or changes an entry, and an  *)
(* entry is added only by a request that matched its route, never by a     *)
(* request to an unrecognized path; an unrecognized request is evaluated   *)
(* against unregisteredLimit and never against an override.                *)
(***************************************************************************)
C21_CacheInvariant == []CacheSound /\ [][CacheGrows]_vars

\* every route is cached and an unrecognized request has just been rejected
C21_Witness ==
  /\ variant = "oc" /\ DOMAIN routeOptionsCache = RouteKeys
  /\ Handled /\ ~Recognized /\ HasDeclaredSize /\ DeclaredSize = 2
  /\ GlobalDefault = Num(1) /\ Rejected /\ outcome.status = 404
  /\ routeOptionsCache[<<"post", "/upload">>] = RouteOptions(Num(1))
  /\ routeOptionsCache[<<"post", "/bad">>] = NoRouteOptions

RawUnregisteredLimit ==
  IF rawOptions.t = "object" THEN rawOptions.unregisteredLimit ELSE Missing

(***************************************************************************)
(* C23.  Original statement: in the "vo" build register never fails; a     *)
(* numeric unregisteredLimit is kept, a negative one clamped to 0, a       *)
(* boolean kept, and anything else (no options, a missing field, null,     *)
(* undefined, a string) becomes null.  With the limit 0 every request to   *)
(* an unrecognized path that declares a body is rejected, declared size 0  *)
(* included; with null every request to an unrecognized path is admitted.  *)
(* A request with a Transfer-Encoding header is rejected under null too.   *)
(***************************************************************************)
C23_ValidateOptionsClamps ==
  (variant = "vo" /\ phase # "new")
    => /\ phase = "registered"
       /\ OptionOf(pluginOptions, "unregisteredLimit") =
            (CASE RawUnregisteredLimit.t = "number" -> Num(Max(0, RawUnregisteredLimit.v))
               [] RawUnregisteredLimit.t = "boolean" -> RawUnregisteredLimit
               [] OTHER -> Null)
       /\ (Handled /\ ~Recognized /\ GlobalDefault = Num(0) /\ DeclaresBody)
            => (Rejected /\ outcome.status = 404)
       /\ (Handled /\ ~Recognized /\ GlobalDefault = Null) => Admitted

(***************************************************************************)
(* C24.  The two number / predicate builds do the same: with the options   *)
(* of a registered "np" or "np2" build, the hook of src/index.ts and the   *)
(* hook of part_004 give every request the same outcome (verdict, status,  *)
(* message, limit read, and the socket's destroy before the throw), and    *)
(* what was done to the request in hand is what the other build's hook     *)
(* does to it on the same socket.                                          *)
(***************************************************************************)
C24_TwoBuildsAgree ==
  (phase = "registered" /\ variant \in {"np", "np2"})
    => /\ \A req \in Requests : onRequest_np(pluginOptions, req) = onRequest_np2(pluginOptions, req)
       /\ Handled
            => /\ outcome = onRequest_np(pluginOptions, request)
               /\ outcome = onRequest_np2(pluginOptions, request)
               /\ \A other \in {onRequest_np(pluginOptions, request),
                                onRequest_np2(pluginOptions, request)} :
                    LET done == Perform(other.effects, socketShape)
                    IN Len(events) >= Len(done) /\ SubSeq(events, 1, Len(done)) = done

\* the part_004 build rejects an unrecognized request by its predicate
C24_Witness ==
  /\ variant = "np2" /\ Handled /\ ~Recognized
  /\ GlobalDefault = Fn(2) /\ OptionOf(pluginOptions, "registeredLimit") = Num(-1)
  /\ HasDeclaredSize /\ DeclaredSize = 1
  /\ Rejected /\ outcome.status = 404
  /\ events = <<"destroy", "throw", "respond">> /\ socket = "destroyed"

====
